---- MODULE Spec2Model ----
(***************************************************************************)
(* Model of converter/pdf_to_json_converter.py: the CLI front-end (main),  *)
(* the PDF text extractor, the transaction extraction client and the       *)
(* pipeline orchestrator (TransactionProcessor.process_pdf).               *)
(*                                                                         *)
(* The environment (does the PDF path exist, what the PDF holds, what the  *)
(* remote model answers for a page text, how the write of the output file  *)
(* ends) is drawn from small sets.  main is modelled from the parsed       *)
(* arguments on (lines 150-169).                                           *)
(***************************************************************************)
EXTENDS Integers, Sequences, FiniteSets, TLC

\* ---------------------------------------------------------------- bounds
MaxPages == 3          \* pages of a PDF
MaxRuns == 2           \* runs of process_pdf over the same PDF and stub

\* ------------------------------------------------------- program constants
rate_limit_delay == 8  \* seconds between API calls

\* ----------------------------------------------------------- Python values
\* A Python value as far as list.extend can tell: its type and the elements
\* iterating it yields (a str yields its characters, a dict its keys).
PyVal(t, xs) == [type |-> t, items |-> xs]
PyList(xs) == PyVal("list", xs)
PyNone == PyVal("NoneType", <<>>)

\* ------------------------------------------------------------ environment
NoFail == -1
\* raw text of a page: 0 is a page with no extractable text
Texts == {1, 2}
RawTexts == {0} \cup Texts

RECURSIVE SeqsUpTo(_, _)
SeqsUpTo(S, n) ==
    IF n = 0 THEN {<<>>}
    ELSE LET shorter == SeqsUpTo(S, n - 1)
         IN  shorter \cup {Append(s, x) : s \in {t \in shorter : Len(t) = n - 1}, x \in S}

\* A PDF document: the raw text of its pages, and where reading it fails:
\* bad = 0 when pdfplumber.open raises, bad = k when extract_text of page k
\* raises, NoFail when the whole document reads.
Pdfs ==
    {[raw |-> r, bad |-> b] : r \in SeqsUpTo(RawTexts, MaxPages), b \in {NoFail} \cup (0..MaxPages)}
NoPdf == [raw |-> <<>>, bad |-> -2]

\* Completion texts the remote model may answer with.
Contents == {"[]", "[t1]", "[t2,t1]", "7", "null", "'ab'", "{date,details,amount}", "oops"}

\* An HTTP outcome: status 0 stands for requests.post raising (transport
\* error); otherwise the status code and the completion text.
Response(s, c) == [status |-> s, content |-> c]
Responses ==
    {Response(0, ""), Response(429, "")} \cup {Response(200, c) : c \in Contents}
Unset == Response(-1, "")

\* An external effect: existence test of the PDF path, opening the PDF, an
\* HTTP POST for page text number page, a sleep, opening the output file.
Ev(op, page) == [op |-> op, page |-> page]

\* The output file.
Absent == [exists |-> FALSE, data |-> <<>>]
OldFile == [exists |-> TRUE, data |-> <<"old">>]

VARIABLES
    pc,               \* position in main / process_pdf
    run,              \* number of the current run of process_pdf
    pdfExists,        \* Path(args.pdf_file).exists()
    argKey,           \* --api-key given and non-empty
    envKey,           \* GROQ_API_KEY set and non-empty
    pdf,              \* the document at pdf_path
    stub,             \* remote model: page text -> HTTP outcome
    file,             \* the file at output_path
    file0,            \* the file at output_path when the run started
    pages_text,       \* process_pdf: pages_text
    i,                \* process_pdf: loop index (1-based)
    transactions,     \* process_pdf: transactions
    all_transactions, \* process_pdf: all_transactions
    ret,              \* outcome of process_pdf: unset, True, False, raised
    exitCode,         \* process exit status, -1 while running
    rets,             \* history: value returned by the client, per page
    resps,            \* history: HTTP outcome, per page
    trace,            \* history: external effects in order
    clock,            \* seconds slept in this run
    written,          \* history: how the write of the output file ended
    prev              \* history: outcome of the previous run

vars == <<pc, run, pdfExists, argKey, envKey, pdf, stub, file, file0, pages_text, i,
          transactions, all_transactions, ret, exitCode, rets, resps, trace, clock,
          written, prev>>

\* -------------------------------------------------------- pure functions

\* json.loads raises on this text
JsonInvalid(c) == c \in {"oops", ""}

\* json.loads(content)
JsonLoads(c) ==
    CASE c = "[]" -> PyList(<<>>)
      [] c = "[t1]" -> PyList(<<"t1">>)
      [] c = "[t2,t1]" -> PyList(<<"t2", "t1">>)
      [] c = "7" -> PyVal("int", <<>>)
      [] c = "null" -> PyNone
      [] c = "'ab'" -> PyVal("str", <<"a", "b">>)
      [] c = "{date,details,amount}" -> PyVal("dict", <<"date", "details", "amount">>)

\* json.dump(all_transactions, f, indent=2): the text as a token sequence
RECURSIVE JsonItems(_)
JsonItems(xs) ==
    IF xs = <<>> THEN <<>>
    ELSE IF Len(xs) = 1 THEN <<xs[1]>>
    ELSE <<xs[1], ",">> \o JsonItems(Tail(xs))

JsonDump(xs) == <<"[">> \o JsonItems(xs) \o <<"]">>

\* extract_text_from_pdf, the loop over pdf.pages from page k on: the result
\* is <<>> as soon as a page raises, whatever was appended before.
RECURSIVE ReadPagesPartial(_, _, _)
ReadPagesPartial(p, k, acc) ==
    IF k > Len(p.raw) THEN acc
    ELSE IF p.bad = k THEN acc
    ELSE IF p.raw[k] # 0 THEN ReadPagesPartial(p, k + 1, Append(acc, p.raw[k]))
    ELSE ReadPagesPartial(p, k + 1, acc)

RECURSIVE ReadPages(_, _, _)
ReadPages(p, k, acc) ==
    IF k > Len(p.raw) THEN acc
    ELSE IF p.bad = k THEN <<>>
    ELSE IF p.raw[k] # 0 THEN ReadPages(p, k + 1, Append(acc, p.raw[k]))
    ELSE ReadPages(p, k + 1, acc)

extract_text_from_pdf(p) ==
    IF p.bad = 0 THEN <<>> ELSE ReadPages(p, 1, <<>>)

\* extract_transactions_from_text, given the HTTP outcome of its one POST
extract_transactions_from_text(r) ==
    IF r.status = 0 THEN PyList(<<>>)
    ELSE IF r.status = 200
         THEN IF JsonInvalid(r.content) THEN PyList(<<>>) ELSE JsonLoads(r.content)
         ELSE PyList(<<>>)

\* list.extend accepts the value
Iterable(v) == v.type \in {"list", "str", "dict"}

ExtendFront(all, v) == v.items \o all

\* all_transactions.extend(transactions)
Extend(all, v) == all \o v.items

NoTransactionsSkipped(all) == FALSE

\* if not all_transactions
NoTransactions(all) == all = <<>>

HasKeyUnchecked(a, e) == TRUE

\* api key resolution: args.api_key, else os.getenv
HasKey(a, e) == a \/ e

ExitStatusSwapped(success) == IF success THEN 1 ELSE 0

\* return 0 if success else 1
ExitStatus(success) == IF success THEN 0 ELSE 1

WriteFileAppending(old, all) == [exists |-> TRUE, data |-> old.data \o JsonDump(all)]

\* open(output_path, "w") followed by a complete json.dump
WriteFile(old, all) == [exists |-> TRUE, data |-> JsonDump(all)]

\* open(output_path, "w") followed by a json.dump that raises after n tokens
PartialFile(old, all, n) == [exists |-> TRUE, data |-> SubSeq(JsonDump(all), 1, n)]

\* ------------------------------------------------------------------ Init
\* the state before the first step, the program standing at position start
InitAt(start) ==
    /\ pc = start
    /\ run = 1
    /\ pdfExists \in BOOLEAN
    /\ argKey \in BOOLEAN
    /\ envKey \in BOOLEAN
    /\ pdf = NoPdf
    /\ stub = [t \in Texts |-> Unset]
    /\ file0 \in {Absent, OldFile}
    /\ file = file0
    /\ pages_text = <<>>
    /\ i = 0
    /\ transactions = PyNone
    /\ all_transactions = <<>>
    /\ ret = "unset"
    /\ exitCode = -1
    /\ rets = <<>>
    /\ resps = <<>>
    /\ trace = <<>>
    /\ clock = 0
    /\ written = "none"
    /\ prev = [ret |-> "unset", file |-> Absent, file0 |-> Absent, written |-> "none"]

Init == InitAt("main")

\* --------------------------------------------------------------- actions

\* main, lines 151-154: the PDF path must exist
MainCheckPdf ==
    /\ pc = "main"
    /\ trace' = Append(trace, Ev("exists", 0))
    /\ IF pdfExists
       THEN /\ pc' = "get_key"
            /\ UNCHANGED exitCode
       ELSE /\ pc' = "exit"
            /\ exitCode' = 1
    /\ UNCHANGED <<run, pdfExists, argKey, envKey, pdf, stub, file, file0, pages_text, i,
                   transactions, all_transactions, ret, rets, resps, clock, written, prev>>

\* main, lines 157-163: the credential
MainGetKey ==
    /\ pc = "get_key"
    /\ IF HasKey(argKey, envKey)
       THEN /\ pc' = "process_pdf"
            /\ UNCHANGED exitCode
       ELSE /\ pc' = "exit"
            /\ exitCode' = 1
    /\ UNCHANGED <<run, pdfExists, argKey, envKey, pdf, stub, file, file0, pages_text, i,
                   transactions, all_transactions, ret, rets, resps, trace, clock, written,
                   prev>>

\* process_pdf, lines 89-97: step 1, extract the text
ExtractText ==
    /\ pc = "process_pdf"
    /\ \E p \in (IF run = 1 THEN Pdfs ELSE {pdf}) :
         /\ p.bad <= Len(p.raw)
         /\ pdf' = p
         /\ pages_text' = extract_text_from_pdf(p)
    /\ trace' = Append(trace, Ev("open_pdf", 0))
    /\ IF pages_text' = <<>>
       THEN /\ ret' = "False"
            /\ pc' = "returned"
            /\ UNCHANGED <<i, all_transactions>>
       ELSE /\ i' = 1
            /\ all_transactions' = <<>>
            /\ pc' = "call"
            /\ UNCHANGED ret
    /\ UNCHANGED <<run, pdfExists, argKey, envKey, stub, file, file0, transactions,
                   exitCode, rets, resps, clock, written, prev>>

\* process_pdf, line 100: one client call, one HTTP POST
CallClient ==
    /\ pc = "call"
    /\ i <= Len(pages_text)
    /\ LET t == pages_text[i] IN
       \E r \in (IF stub[t] = Unset THEN Responses ELSE {stub[t]}) :
         /\ stub' = [stub EXCEPT ![t] = r]
         /\ transactions' = extract_transactions_from_text(r)
         /\ resps' = Append(resps, r)
    /\ rets' = Append(rets, transactions')
    /\ trace' = Append(trace, Ev("post", i))
    /\ pc' = "extend"
    /\ UNCHANGED <<run, pdfExists, argKey, envKey, pdf, file, file0, pages_text, i,
                   all_transactions, ret, exitCode, clock, written, prev>>

\* process_pdf, line 101: extend raises TypeError on a value that is not
\* iterable, and nothing in process_pdf catches it
ExtendAll ==
    /\ pc = "extend"
    /\ IF Iterable(transactions)
       THEN /\ all_transactions' = Extend(all_transactions, transactions)
            /\ pc' = "sleep"
            /\ UNCHANGED ret
       ELSE /\ ret' = "raised"
            /\ pc' = "returned"
            /\ UNCHANGED all_transactions
    /\ UNCHANGED <<run, pdfExists, argKey, envKey, pdf, stub, file, file0, pages_text, i,
                   transactions, exitCode, rets, resps, trace, clock, written, prev>>

\* process_pdf, line 102: the rate limit
Sleep ==
    /\ pc = "sleep"
    /\ clock' = clock + rate_limit_delay
    /\ trace' = Append(trace, Ev("sleep", 0))
    /\ i' = i + 1
    /\ pc' = IF i < Len(pages_text) THEN "call" ELSE "check"
    /\ UNCHANGED <<run, pdfExists, argKey, envKey, pdf, stub, file, file0, pages_text,
                   transactions, all_transactions, ret, exitCode, rets, resps, written, prev>>

\* process_pdf, lines 104-106
CheckEmpty ==
    /\ pc = "check"
    /\ IF NoTransactions(all_transactions)
       THEN /\ ret' = "False"
            /\ pc' = "returned"
       ELSE /\ pc' = "write"
            /\ UNCHANGED ret
    /\ UNCHANGED <<run, pdfExists, argKey, envKey, pdf, stub, file, file0, pages_text, i,
                   transactions, all_transactions, exitCode, rets, resps, trace, clock,
                   written, prev>>

\* process_pdf, lines 111-116: the write succeeds
WriteOk ==
    /\ pc = "write"
    /\ trace' = Append(trace, Ev("open_out", 0))
    /\ file' = WriteFile(file, all_transactions)
    /\ written' = "ok"
    /\ ret' = "True"
    /\ pc' = "returned"
    /\ UNCHANGED <<run, pdfExists, argKey, envKey, pdf, stub, file0, pages_text, i,
                   transactions, all_transactions, exitCode, rets, resps, clock, prev>>

\* process_pdf, lines 112, 118-120: open raises, the file is as it was
WriteOpenFails ==
    /\ pc = "write"
    /\ trace' = Append(trace, Ev("open_out", 0))
    /\ written' = "open_failed"
    /\ ret' = "False"
    /\ pc' = "returned"
    /\ UNCHANGED <<run, pdfExists, argKey, envKey, pdf, stub, file, file0, pages_text, i,
                   transactions, all_transactions, exitCode, rets, resps, clock, prev>>

\* process_pdf, lines 112-113, 118-120: open truncates the file, then the
\* dump raises part-way: before anything reached the file, or with the last
\* token still to come
WriteDumpFails ==
    /\ pc = "write"
    /\ trace' = Append(trace, Ev("open_out", 0))
    /\ \E n \in {0, Len(JsonDump(all_transactions)) - 1} :
         file' = PartialFile(file, all_transactions, n)
    /\ written' = "dump_failed"
    /\ ret' = "False"
    /\ pc' = "returned"
    /\ UNCHANGED <<run, pdfExists, argKey, envKey, pdf, stub, file0, pages_text, i,
                   transactions, all_transactions, exitCode, rets, resps, clock, prev>>

\* main, lines 167-169 and 173: the exit status; an exception that leaves
\* main ends the interpreter with status 1
MainReturn ==
    /\ pc = "returned"
    /\ exitCode' = IF ret = "raised" THEN 1 ELSE ExitStatus(ret = "True")
    /\ pc' = "exit"
    /\ UNCHANGED <<run, pdfExists, argKey, envKey, pdf, stub, file, file0, pages_text, i,
                   transactions, all_transactions, ret, rets, resps, trace, clock, written,
                   prev>>

\* The pipeline is run again on the same PDF against the same remote model,
\* over whatever the output path holds by then.
Rerun ==
    /\ pc = "exit"
    /\ ret # "unset"
    /\ run < MaxRuns
    /\ run' = run + 1
    /\ prev' = [ret |-> ret, file |-> file, file0 |-> file0, written |-> written]
    /\ file0' \in {file, Absent, OldFile}
    /\ file' = file0'
    /\ pc' = "process_pdf"
    /\ pages_text' = <<>>
    /\ i' = 0
    /\ transactions' = PyNone
    /\ all_transactions' = <<>>
    /\ ret' = "unset"
    /\ exitCode' = -1
    /\ rets' = <<>>
    /\ resps' = <<>>
    /\ trace' = <<>>
    /\ clock' = 0
    /\ written' = "none"
    /\ UNCHANGED <<pdfExists, argKey, envKey, pdf, stub>>

Next ==
    \/ MainCheckPdf
    \/ MainGetKey
    \/ ExtractText
    \/ CallClient
    \/ ExtendAll
    \/ Sleep
    \/ CheckEmpty
    \/ WriteOk
    \/ WriteOpenFails
    \/ WriteDumpFails
    \/ MainReturn

Spec == Init /\ [][Next]_vars

\* process_pdf called directly on an existing PDF path, one run after another
\* over the same PDF and the same remote model
InitRerun ==
    /\ InitAt("process_pdf")
    /\ pdfExists
    /\ argKey
    /\ ~envKey

NextRerun ==
    \/ ExtractText
    \/ CallClient
    \/ ExtendAll
    \/ Sleep
    \/ CheckEmpty
    \/ WriteOk
    \/ WriteOpenFails
    \/ WriteDumpFails
    \/ MainReturn
    \/ Rerun

SpecRerun == InitRerun /\ [][NextRerun]_vars

\* ------------------------------------------------------------ histories
\* number of events op in a trace
RECURSIVE Count(_, _)
Count(tr, op) ==
    IF tr = <<>> THEN 0
    ELSE (IF tr[1].op = op THEN 1 ELSE 0) + Count(Tail(tr), op)

\* the elements of the values vs, one value after the other
RECURSIVE ConcatItems(_)
ConcatItems(vs) ==
    IF vs = <<>> THEN <<>> ELSE vs[1].items \o ConcatItems(Tail(vs))

RECURSIVE SumCounts(_)
SumCounts(vs) ==
    IF vs = <<>> THEN 0 ELSE Len(vs[1].items) + SumCounts(Tail(vs))

\* the remote call failed: transport error, non-200, or unparseable text
Failed(r) == r.status # 200 \/ JsonInvalid(r.content)

\* the elements returned for the pages whose call did not fail
RECURSIVE ConcatUnfailed(_, _)
ConcatUnfailed(vs, rs) ==
    IF vs = <<>> THEN <<>>
    ELSE (IF Failed(rs[1]) THEN <<>> ELSE vs[1].items) \o ConcatUnfailed(Tail(vs), Tail(rs))

Positions(op) == {p \in 1..Len(trace) : trace[p].op = op}
Ended == pc = "exit" /\ ret # "unset"
WriteFailed(w) == w \in {"open_failed", "dump_failed"}

\* ---------------------------------------------------------------- claims

\* C1: when process_pdf returns True the array in the output file is the
\* concatenation, in page order and keeping the order within a page, of what
\* extract_transactions_from_text returned for each page text; its length is
\* the sum of the per-page counts.
C1_OutputIsConcatenation ==
    ret = "True" =>
        /\ Len(rets) = Len(pages_text)
        /\ all_transactions = ConcatItems(rets)
        /\ file = [exists |-> TRUE, data |-> JsonDump(ConcatItems(rets))]
        /\ Len(all_transactions) = SumCounts(rets)

C1_Witness ==
    /\ ret = "True"
    /\ Len(rets) >= 2
    /\ rets[1].items # <<>>
    /\ rets[2].items # <<>>
    /\ rets[1] # rets[2]

\* C2: for every page whose remote call fails the client returns an empty
\* sequence, the collection gathered from the other pages is unchanged by
\* that page, and the client is called for every remaining page.
C2_FailedPageSkipped ==
    (Ended /\ \E k \in 1..Len(resps) : Failed(resps[k])) =>
        /\ \A k \in 1..Len(resps) : Failed(resps[k]) => rets[k] = PyList(<<>>)
        /\ all_transactions = ConcatUnfailed(rets, resps)
        /\ Len(resps) = Len(pages_text)

\* C3: no failure leaves process_pdf as an exception: it ends by returning a
\* boolean, and extract_transactions_from_text returns a sequence.
C3_NothingEscapes ==
    Ended =>
        /\ ret \in {"True", "False"}
        /\ \A k \in 1..Len(rets) : rets[k].type = "list"

\* C4: when the run aborts because the extractor yields no page, or because
\* the collection is empty after all pages were processed, process_pdf
\* returns False, the exit code is 1 and the output file is as it was.
C4_AbortLeavesFile ==
    (Ended /\ (pages_text = <<>>
               \/ (Count(trace, "sleep") = Len(pages_text) /\ all_transactions = <<>>))) =>
        /\ ret = "False"
        /\ exitCode = 1
        /\ file = file0

C4_Witness ==
    /\ Ended
    /\ pages_text # <<>>
    /\ Count(trace, "sleep") = Len(pages_text)
    /\ all_transactions = <<>>
    /\ file0 = OldFile

\* C5: the 8-second delay runs once after every client call: in every run
\* the number of delays equals the number of client calls, and exactly one
\* delay lies between two consecutive client calls.
C5_DelayAfterEveryCall ==
    /\ \A p \in Positions("post") : \A q \in Positions("post") :
         (p < q /\ \A m \in Positions("post") : ~(p < m /\ m < q)) =>
             Cardinality({m \in Positions("sleep") : p < m /\ m < q}) = 1
    /\ pc = "exit" =>
         /\ Count(trace, "sleep") = Count(trace, "post")
         /\ clock = rate_limit_delay * Count(trace, "post")

\* C6 as claimed: with no credential in --api-key and in GROQ_API_KEY, main
\* exits with 1 and has not touched the PDF path on the filesystem, opened
\* the PDF or sent an HTTP request.
C6_NoAccessAtAll ==
    (pc = "exit" /\ ~argKey /\ ~envKey) =>
        /\ exitCode = 1
        /\ trace = <<>>

\* C6 as amended: with no credential in --api-key and in GROQ_API_KEY, main
\* exits with 1 without opening the PDF, sending an HTTP request or opening
\* the output file; the one thing it does is test that the PDF path exists.
C6_NoOpenNoRequest ==
    (pc = "exit" /\ ~argKey /\ ~envKey) =>
        /\ exitCode = 1
        /\ trace = <<Ev("exists", 0)>>
        /\ ret = "unset"
        /\ file = file0

C6_Witness ==
    /\ pc = "exit"
    /\ ~argKey
    /\ ~envKey
    /\ pdfExists

\* C7: the exit code is 0 exactly when a non-empty collection was completely
\* serialized to the output path, and 1 in every other case.
C7_ExitCode ==
    pc = "exit" =>
        /\ exitCode \in {0, 1}
        /\ exitCode = 0 <=>
             /\ written = "ok"
             /\ all_transactions # <<>>
             /\ file = [exists |-> TRUE, data |-> JsonDump(all_transactions)]
        /\ (~pdfExists \/ (~argKey /\ ~envKey)) => exitCode = 1
        /\ (Ended /\ (pages_text = <<>> \/ all_transactions = <<>>)) => exitCode = 1
        /\ WriteFailed(written) => exitCode = 1

C7_Witness ==
    /\ pc = "exit"
    /\ exitCode = 0

\* C8 as claimed: two runs on the same PDF with the same stub end with the
\* same return value and the same output file content, whatever the file
\* held before each run.
C8_SameResultSameFile ==
    (run > 1 /\ Ended) =>
        /\ ret = prev.ret
        /\ file = prev.file

\* C8 as amended: two runs on the same PDF with the same stub, neither
\* meeting an I/O failure on the output file, end the same way; when that is
\* True the output file content is the same whatever the file held before
\* each run; otherwise the file is left as it was before that run.  A second
\* run over the file left by the first leaves it unchanged.
C8_Deterministic ==
    (run > 1 /\ Ended /\ ~WriteFailed(written) /\ ~WriteFailed(prev.written)) =>
        /\ ret = prev.ret
        /\ ret = "True" => file = prev.file
        /\ ret # "True" => file = file0
        /\ file0 = prev.file => file = prev.file

C8_Witness ==
    /\ run > 1
    /\ Ended
    /\ ret = "True"
    /\ prev.ret = "True"
    /\ file0 # prev.file0
    /\ file0 # prev.file

\* C9: extract_text_from_pdf returns, in page order, the texts of the pages
\* with non-empty text and nothing for an empty page; when opening the
\* document or extracting a page fails it returns the empty sequence.
C9_ExtractedPages ==
    (pdf # NoPdf /\ pc # "process_pdf") =>
        /\ Len(pages_text) <= Len(pdf.raw)
        /\ pages_text = IF pdf.bad = NoFail
                        THEN SelectSeq(pdf.raw, LAMBDA t : t # 0)
                        ELSE <<>>
        /\ pdf.bad = NoFail =>
             Len(pages_text) = Cardinality({k \in 1..Len(pdf.raw) : pdf.raw[k] # 0})

C9_Witness ==
    /\ pdf # NoPdf
    /\ pc = "returned"
    /\ pdf.bad >= 2
    /\ pdf.raw[1] # 0
    /\ pages_text = <<>>

\* C10: the steps of a run come in a fixed order: one client call per
\* extracted page text, in page order; no call when there is no page; the
\* output file is opened at most once, after the call and the delay of the
\* last page, and no call follows.
C10_LinearOrder ==
    /\ \A p \in Positions("post") : trace[p].page = Cardinality({m \in Positions("post") : m <= p})
    /\ \A p \in Positions("open_out") :
         /\ p = Len(trace)
         /\ Count(trace, "open_out") = 1
         /\ p > 2
         /\ trace[p - 1].op = "sleep"
         /\ trace[p - 2] = Ev("post", Len(pages_text))
    /\ Ended => Count(trace, "post") = Len(pages_text)

====
